---------------------------- MODULE Spec2Model ----------------------------
(***************************************************************************)
(* Tree state and layout engine of the diagrams-flow editor.               *)
(*                                                                         *)
(* The model follows src/src/v14.tsx (the editor served at the index       *)
(* route): the node list with parent links, the derived connectors, the    *)
(* relink selection state, the id counter, and the handlers that the node  *)
(* buttons and the panel buttons invoke.  Every action is one user event:  *)
(* the handler, the state updates it queues, and the effects React runs    *)
(* before the next event is dispatched.                                    *)
(*                                                                         *)
(* Node ids are the decimal strings "1", "2", ... in the source; they are  *)
(* modelled by the naturals they print, and the null parent / null         *)
(* selection by NULL.                                                      *)
(***************************************************************************)
EXTENDS Integers, Sequences, FiniteSets, TLC

(***************************************************************************)
(* Bounds of the model.                                                    *)
(***************************************************************************)
\* largest id add-child may hand out
MaxId == 5
\* largest id add-child may hand out where stale calls are made too
MaxStaleId == 4
\* largest id add-child may hand out where the edit modal is used too
MaxEditId == 4
\* largest id add-child may hand out where the ids start just below the anchor
MaxAnchorId == 12
\* largest id add-child may hand out in the measured-width variant
MaxMeasuredId == 4
\* the widths React Flow may measure for a node
MeasuredWidths == {80, 300}

(***************************************************************************)
(* Program constants.                                                      *)
(***************************************************************************)
NODE_WIDTH == 180
VERTICAL_GAP == 120
HORIZONTAL_GAP == 30
NODE_TYPES == <<"System", "Subsystem", "Component", "Part">>
ROOT_ID == 1
ROOT_X == 300
ROOT_Y == 50
NULL == 0

\* names and types the edit modal may submit
EditNames == {"Renamed"}
EditTypes == {NODE_TYPES[4]}

ANCHOR_ID == 10

\* layoutApplied is state of the measured-width variant only
\* (src/unnamed/part_000); the v14 editor has no such state and leaves it alone
VARIABLES nodes, edges, isRelinkMode, selectedNodeForRelink, nextId,
          nodeParentsRef, layoutApplied, lastCmd

vars == <<nodes, edges, isRelinkMode, selectedNodeForRelink, nextId,
          nodeParentsRef, layoutApplied, lastCmd>>

(***************************************************************************)
(* Generic helpers.                                                        *)
(***************************************************************************)
Max(a, b) == IF a >= b THEN a ELSE b

Range(s) == {s[i] : i \in 1..Len(s)}

Ids(nds) == {nds[i].id : i \in 1..Len(nds)}

NodeById(nds, id) == CHOOSE n \in Range(nds) : n.id = id

RECURSIVE SumSeq(_)
SumSeq(s) == IF Len(s) = 0 THEN 0 ELSE s[1] + SumSeq(Tail(s))


(***************************************************************************)
(* Layout: getSubtreeWidth and layoutTree.                                 *)
(***************************************************************************)
\* childrenMap[id]: the nodes whose parentId is id, in list order
ChildrenMap(nds, id) == SelectSeq(nds, LAMBDA n : n.parentId = id)

\* a subtree width that ignores the children
getSubtreeWidthOwn(node, nds) == NODE_WIDTH

RECURSIVE getSubtreeWidth(_, _)
getSubtreeWidth(node, nds) ==
  LET children == ChildrenMap(nds, node.id)
      widths == [i \in 1..Len(children) |-> getSubtreeWidth(children[i], nds)]
      total == SumSeq(widths) + (Len(children) - 1) * HORIZONTAL_GAP
  IN  IF Len(children) = 0 THEN NODE_WIDTH ELSE Max(NODE_WIDTH, total)

\* the x of a node whose centre is xCenter
NodeLeft(xCenter) == xCenter - NODE_WIDTH \div 2

\* a root centre that takes the full width for the half
RootCenterFullWidth(node) == node.x + NODE_WIDTH

\* the centre from which layoutTree lays a root out
RootCenter(node) == node.x + NODE_WIDTH \div 2

\* children put on the row of their parent
ChildYSameRow(y) == y

\* the y of the children of a node at y
ChildY(y) == y + VERTICAL_GAP

\* slots laid side by side without the gap
SlotLeftWithoutGap(startX, widths, i) ==
  startX + SumSeq(SubSeq(widths, 1, i - 1))

\* currentX before the i-th child: the slots and gaps of the children before it
SlotLeft(startX, widths, i) ==
  startX + SumSeq(SubSeq(widths, 1, i - 1)) + (i - 1) * HORIZONTAL_GAP

\* the positions layoutNode assigns in the subtree of node, as <<id, x, y>>
RECURSIVE layoutNode(_, _, _, _)
layoutNode(nds, node, xCenter, y) ==
  LET children == ChildrenMap(nds, node.id)
      childrenWidths == [i \in 1..Len(children) |-> getSubtreeWidth(children[i], nds)]
      totalChildrenWidth ==
        SumSeq(childrenWidths) + (Len(children) - 1) * HORIZONTAL_GAP
      startX == xCenter - totalChildrenWidth \div 2
      childCenter(i) == SlotLeft(startX, childrenWidths, i) + childrenWidths[i] \div 2
  IN  {<<node.id, NodeLeft(xCenter), y>>}
        \cup UNION {layoutNode(nds, children[i], childCenter(i), ChildY(y)) :
                      i \in 1..Len(children)}

\* the node with the position of the entry placed holds for it; a node
\* layoutNode did not reach keeps the position it had
Place(placed, n) ==
  IF \E t \in placed : t[1] = n.id
  THEN LET t == CHOOSE u \in placed : u[1] = n.id
       IN  [n EXCEPT !.x = t[2], !.y = t[3]]
  ELSE n

\* layoutTree: lay out the subtree of every parentless node
layoutTree(nds) ==
  LET roots == SelectSeq(nds, LAMBDA n : n.parentId = NULL)
      placed == UNION {layoutNode(nds, roots[i], RootCenter(roots[i]), roots[i].y) :
                         i \in 1..Len(roots)}
  IN  [i \in 1..Len(nds) |-> Place(placed, nds[i])]

\* layoutTree writes node.position on the node objects of the list it is
\* given, and the handlers build that list from the objects of the previous
\* list (spread, filter, map).  before is the previous list, laidOut the
\* list layoutTree returned, fresh the ids whose object was copied before
\* the layout: the result is the previous list as its holder reads it after
\* the layout.
layoutTreeWrites(before, laidOut, fresh) ==
  [i \in 1..Len(before) |->
     IF before[i].id \in Ids(laidOut) \ fresh
     THEN [before[i] EXCEPT !.x = NodeById(laidOut, before[i].id).x,
                            !.y = NodeById(laidOut, before[i].id).y]
     ELSE before[i]]

(***************************************************************************)
(* Connectors: computeEdges.                                               *)
(***************************************************************************)
\* a descent that stops at the children
findDescendantsChildren(nds, nodeId) ==
  LET kids == ChildrenMap(nds, nodeId)
  IN  {kids[i].id : i \in 1..Len(kids)}

\* findDescendants(nodeId): the ids added to isDescendantOf10 from nodeId down
RECURSIVE findDescendants(_, _)
findDescendants(nds, nodeId) ==
  LET kids == ChildrenMap(nds, nodeId)
  IN  {kids[i].id : i \in 1..Len(kids)}
        \cup UNION {findDescendants(nds, kids[i].id) : i \in 1..Len(kids)}

\* the id string `e-${parentId}-${id}`
EdgeId(parentId, id) == <<"e", parentId, id>>

\* a connector for every node of the list, the parentless ones included
computeEdgesEveryNode(nds) ==
  [i \in 1..Len(nds) |-> [id |-> EdgeId(nds[i].parentId, nds[i].id),
                          source |-> nds[i].parentId,
                          target |-> nds[i].id,
                          animated |-> FALSE]]

computeEdges(nds) ==
  LET isDescendantOf10 == findDescendants(nds, ANCHOR_ID)
      withParent == SelectSeq(nds, LAMBDA n : n.parentId # NULL)
      EdgeOf(n) == [id |-> EdgeId(n.parentId, n.id),
                    source |-> n.parentId,
                    target |-> n.id,
                    animated |-> (n.id = ANCHOR_ID \/ n.id \in isDescendantOf10)]
  IN  [i \in 1..Len(withParent) |-> EdgeOf(withParent[i])]

(***************************************************************************)
(* CustomNode: the relink target test.  A node component computes          *)
(* canBeRelinkTarget when it renders, from its data and from the parents   *)
(* ref as it is at that moment; handleNodeClick uses the value of the last *)
(* render.  The field canBeRelinkTarget of a node record is that value.    *)
(***************************************************************************)
\* the effect that refreshes nodeParentsRef: id -> parentId, for the nodes with a parent
ParentsOf(nds) ==
  [id \in {n.id : n \in {m \in Range(nds) : m.parentId # NULL}} |->
     NodeById(nds, id).parentId]

\* nodeParentsRef.current[id]; NULL stands for undefined
ParentLookup(ref, id) == IF id \in DOMAIN ref THEN ref[id] ELSE NULL

RECURSIVE isNodeDescendant(_, _, _)
isNodeDescendant(ref, nodeId, potentialAncestorId) ==
  IF nodeId = potentialAncestorId THEN TRUE
  ELSE LET parentId == ParentLookup(ref, nodeId)
       IN  IF parentId = NULL THEN FALSE
           ELSE isNodeDescendant(ref, parentId, potentialAncestorId)

\* a target test without the cycle check
isDescendantNever(ref, data) == FALSE

isDescendant(ref, data) ==
  IF ~data.isRelinkMode \/ data.selectedNodeForRelink = NULL THEN FALSE
  ELSE isNodeDescendant(ref, data.id, data.selectedNodeForRelink)

isValidRelinkTarget(data) ==
  /\ data.isRelinkMode
  /\ data.selectedNodeForRelink # NULL
  /\ data.selectedNodeForRelink # data.id

\* a target test without the current-parent clause
canBeRelinkTargetAnyParent(ref, data) ==
  /\ isValidRelinkTarget(data)
  /\ ~isDescendant(ref, data)

canBeRelinkTarget(ref, data) ==
  /\ isValidRelinkTarget(data)
  /\ ~isDescendant(ref, data)
  /\ data.id # ParentLookup(ref, data.selectedNodeForRelink)

\* the effect that copies the relink state into every node's data; every node
\* component renders again with the new data, after nodeParentsRef was refreshed
SyncRelinkData(nds, mode, sel) ==
  LET Synced(node) == [node EXCEPT !.isRelinkMode = mode,
                                   !.selectedNodeForRelink = sel]
  IN  [i \in 1..Len(nds) |->
        [Synced(nds[i]) EXCEPT
           !.canBeRelinkTarget = canBeRelinkTarget(ParentsOf(nds), Synced(nds[i]))]]

\* the node list after the effects of a render in which the relink state went
\* from (isRelinkMode, selectedNodeForRelink) to (mode, sel)
AfterEffects(nds, mode, sel) ==
  IF mode # isRelinkMode \/ sel # selectedNodeForRelink
  THEN SyncRelinkData(nds, mode, sel)
  ELSE nds

(***************************************************************************)
(* Node records and the handlers of App.                                   *)
(***************************************************************************)
\* the label `Component #${nextId.current}`
DefaultLabel(id) == <<"Component #", id>>

\* an add-child that numbers the new node by the length of the list
NewNodeByLength(id, parentId) ==
  [id |-> Len(nodes) + 1, parentId |-> parentId, label |-> <<"Component #", Len(nodes) + 1>>,
   type |-> NODE_TYPES[3], x |-> 0, y |-> 0,
   isRelinkMode |-> FALSE, selectedNodeForRelink |-> NULL,
   canBeRelinkTarget |-> FALSE]

\* the node handleAddChild creates; the handler every node carries as
\* data.onAddChild is the one of the first render, whose closure holds
\* isRelinkMode = false and selectedNodeForRelink = null
NewNode(id, parentId) ==
  [id |-> id, parentId |-> parentId, label |-> DefaultLabel(id),
   type |-> NODE_TYPES[3], x |-> 0, y |-> 0,
   isRelinkMode |-> FALSE, selectedNodeForRelink |-> NULL,
   canBeRelinkTarget |-> FALSE]

\* the root node of the initialisation effect, before layout
InitialNode ==
  [id |-> ROOT_ID, parentId |-> NULL, label |-> "Main System",
   type |-> NODE_TYPES[1], x |-> ROOT_X, y |-> ROOT_Y,
   isRelinkMode |-> FALSE, selectedNodeForRelink |-> NULL,
   canBeRelinkTarget |-> FALSE]

\* the updater of handleAddChild: append the new node, lay the list out
\* an add-child that puts the new node in front of the list
handleAddChildInFront(nds, parentId, id) ==
  layoutTree(<<NewNode(id, parentId)>> \o nds)

handleAddChild(nds, parentId, id) == layoutTree(Append(nds, NewNode(id, parentId)))

\* getDescendants(id) of handleDelete, in the order it collects them
RECURSIVE getDescendants(_, _)
getDescendants(nds, id) ==
  LET Step(acc, node) ==
        IF node.parentId = id
        THEN acc \o <<node.id>> \o getDescendants(nds, node.id)
        ELSE acc
      Walk[i \in 0..Len(nds)] == IF i = 0 THEN <<>> ELSE Step(Walk[i - 1], nds[i])
  IN  Walk[Len(nds)]

\* a delete that forgets the descendants
RemainingNodesShallow(nds, nodeId) ==
  SelectSeq(nds, LAMBDA node : node.id # nodeId)

\* the nodes handleDelete keeps
RemainingNodes(nds, nodeId) ==
  LET descendants == getDescendants(nds, nodeId)
  IN  SelectSeq(nds, LAMBDA node : node.id # nodeId /\ node.id \notin Range(descendants))

\* the updater of handleDelete
\* a delete that leaves the remaining nodes where they were
handleDeleteWithoutLayout(nds, nodeId) == RemainingNodes(nds, nodeId)

handleDelete(nds, nodeId) == layoutTree(RemainingNodes(nds, nodeId))

\* a relink that takes the node out of the list and appends it again
RelinkedNodesMovedLast(nds, nodeId, newParentId) ==
  SelectSeq(nds, LAMBDA n : n.id # nodeId)
    \o [i \in 1..Len(SelectSeq(nds, LAMBDA n : n.id = nodeId)) |->
          [SelectSeq(nds, LAMBDA n : n.id = nodeId)[i] EXCEPT !.parentId = newParentId]]

\* the node list handleRelink maps the old one to, before layout
RelinkedNodes(nds, nodeId, newParentId) ==
  [i \in 1..Len(nds) |-> IF nds[i].id = nodeId
                          THEN [nds[i] EXCEPT !.parentId = newParentId]
                          ELSE nds[i]]

\* the updater of handleRelink
handleRelink(nds, nodeId, newParentId) ==
  layoutTree(RelinkedNodes(nds, nodeId, newParentId))

\* the updater of handleSaveNodeEdit
\* an edit that gives the new type to every node
handleSaveNodeEditRetypingAll(nds, id, name, type) ==
  [i \in 1..Len(nds) |-> IF nds[i].id = id
                          THEN [nds[i] EXCEPT !.label = name, !.type = type]
                          ELSE [nds[i] EXCEPT !.type = type]]

handleSaveNodeEdit(nds, id, name, type) ==
  [i \in 1..Len(nds) |-> IF nds[i].id = id
                          THEN [nds[i] EXCEPT !.label = name, !.type = type]
                          ELSE nds[i]]

(***************************************************************************)
(* The user events.  lastCmd records the last event for the properties:    *)
(* its kind, the node it named, the node held for relink in the data of    *)
(* the clicked node, and the length of the node list before it.            *)
(***************************************************************************)
Cmd(op, id, held) == [op |-> op, id |-> id, held |-> held, n |-> Len(nodes)]

Init ==
  /\ nodes = layoutTree(<<InitialNode>>)
  /\ edges = computeEdges(layoutTree(<<InitialNode>>))
  /\ isRelinkMode = FALSE
  /\ selectedNodeForRelink = NULL
  /\ nextId = 2
  /\ nodeParentsRef = ParentsOf(<<InitialNode>>)
  /\ layoutApplied = FALSE
  /\ lastCmd = [op |-> "init", id |-> NULL, held |-> NULL, n |-> 0]

\* data.onAddChild(parentId), while no id above lastId has been handed out
DoAddChildWithin(parentId, lastId) ==
  /\ nextId <= lastId
  /\ nodes' = handleAddChild(nodes, parentId, nextId)
  /\ edges' = computeEdges(nodes')
  /\ nextId' = nextId + 1
  /\ nodeParentsRef' = ParentsOf(nodes')
  /\ lastCmd' = Cmd("add", parentId, NULL)
  /\ UNCHANGED <<isRelinkMode, selectedNodeForRelink, layoutApplied>>

\* data.onAddChild(parentId)
DoAddChild(parentId) == DoAddChildWithin(parentId, MaxId)

\* data.onDelete(nodeId)
DoDelete(nodeId) ==
  /\ nodes' = handleDelete(nodes, nodeId)
  /\ edges' = computeEdges(nodes')
  /\ nodeParentsRef' = ParentsOf(nodes')
  /\ lastCmd' = Cmd("delete", nodeId, NULL)
  /\ UNCHANGED <<isRelinkMode, selectedNodeForRelink, nextId, layoutApplied>>

\* data.onRelink(nodeId, newParentId), with the effects that follow the reset
\* of the relink state
DoRelink(nodeId, newParentId, cmd) ==
  /\ isRelinkMode' = FALSE
  /\ selectedNodeForRelink' = NULL
  /\ nodes' = AfterEffects(handleRelink(nodes, nodeId, newParentId), FALSE, NULL)
  /\ edges' = computeEdges(handleRelink(nodes, nodeId, newParentId))
  /\ nodeParentsRef' = ParentsOf(nodes')
  /\ lastCmd' = cmd
  /\ UNCHANGED <<nextId, layoutApplied>>

\* data.onSelectForRelink(nodeId)
DoSelectForRelink(nodeId, cmd) ==
  /\ selectedNodeForRelink' = nodeId
  /\ nodes' = AfterEffects(nodes, isRelinkMode, nodeId)
  /\ nodeParentsRef' = ParentsOf(nodes')
  /\ lastCmd' = cmd
  /\ UNCHANGED <<edges, isRelinkMode, nextId, layoutApplied>>

\* a click that handleNodeClick ignores
Ignored(cmd) ==
  /\ lastCmd' = cmd
  /\ UNCHANGED <<nodes, edges, isRelinkMode, selectedNodeForRelink, nextId,
                 nodeParentsRef, layoutApplied>>

\* handleNodeClick of the node component of data; can is the component's
\* canBeRelinkTarget
handleNodeClick(data, can) ==
  LET cmd == Cmd("click", data.id, data.selectedNodeForRelink)
  IN  IF ~data.isRelinkMode THEN Ignored(cmd)
      ELSE IF data.selectedNodeForRelink # NULL
           THEN IF can
                THEN DoRelink(data.selectedNodeForRelink, data.id, cmd)
                ELSE Ignored(cmd)
           ELSE IF data.parentId # NULL
                THEN DoSelectForRelink(data.id, cmd)
                ELSE Ignored(cmd)

\* the plus button of a node
AddChild ==
  \E p \in Ids(nodes) : DoAddChild(p)

\* a trash button on every node
TrashShownAlways(data) == TRUE

\* the trash button is rendered for the nodes whose data.parentId is not null
TrashShown(data) == data.parentId # NULL

\* the trash button of a node
Delete ==
  \E n \in Ids(nodes) :
    /\ TrashShown(NodeById(nodes, n))
    /\ DoDelete(n)

\* a click on a node body.  The component of the node has either not rendered
\* since the relink data was last synced, or has rendered again since the
\* parents ref was last refreshed (rerendered)
ClickNode ==
  \E id \in Ids(nodes) : \E rerendered \in BOOLEAN :
    LET data == NodeById(nodes, id)
    IN  handleNodeClick(data, IF rerendered
                              THEN canBeRelinkTarget(nodeParentsRef, data)
                              ELSE data.canBeRelinkTarget)

\* a relink mode button that keeps the held node
ToggleRelinkModeKeepingHeld ==
  /\ isRelinkMode' = ~isRelinkMode
  /\ nodes' = AfterEffects(nodes, ~isRelinkMode, selectedNodeForRelink)
  /\ nodeParentsRef' = ParentsOf(nodes')
  /\ lastCmd' = Cmd("toggle", NULL, selectedNodeForRelink)
  /\ UNCHANGED <<edges, nextId, layoutApplied, selectedNodeForRelink>>

\* the relink mode button; lastCmd keeps the node that was held
ToggleRelinkMode ==
  /\ isRelinkMode' = ~isRelinkMode
  /\ selectedNodeForRelink' = NULL
  /\ nodes' = AfterEffects(nodes, ~isRelinkMode, NULL)
  /\ nodeParentsRef' = ParentsOf(nodes')
  /\ lastCmd' = Cmd("toggle", NULL, selectedNodeForRelink)
  /\ UNCHANGED <<edges, nextId, layoutApplied>>

\* a cancel button that also leaves relink mode
CancelRelinkLeavingMode ==
  /\ selectedNodeForRelink # NULL
  /\ selectedNodeForRelink' = NULL
  /\ isRelinkMode' = FALSE
  /\ nodes' = AfterEffects(nodes, FALSE, NULL)
  /\ nodeParentsRef' = ParentsOf(nodes')
  /\ lastCmd' = Cmd("cancel", NULL, NULL)
  /\ UNCHANGED <<edges, nextId, layoutApplied>>

\* the cancel button, rendered while a node is held
CancelRelink ==
  /\ selectedNodeForRelink # NULL
  /\ selectedNodeForRelink' = NULL
  /\ nodes' = AfterEffects(nodes, isRelinkMode, NULL)
  /\ nodeParentsRef' = ParentsOf(nodes')
  /\ lastCmd' = Cmd("cancel", NULL, NULL)
  /\ UNCHANGED <<edges, isRelinkMode, nextId, layoutApplied>>

\* onSave(id, name, type) of the edit modal
DoSaveNodeEdit(id, name, type) ==
  /\ nodes' = handleSaveNodeEdit(nodes, id, name, type)
  /\ nodeParentsRef' = ParentsOf(nodes')
  /\ lastCmd' = Cmd("edit", id, NULL)
  /\ UNCHANGED <<edges, isRelinkMode, selectedNodeForRelink, nextId, layoutApplied>>

\* the edit modal, opened on a node and submitted
SaveNodeEdit ==
  \E id \in Ids(nodes) : \E name \in EditNames : \E type \in EditTypes :
    DoSaveNodeEdit(id, name, type)

\* the structural commands and the relink selection protocol
Next ==
  \/ AddChild
  \/ Delete
  \/ ClickNode
  \/ ToggleRelinkMode
  \/ CancelRelink

Spec == Init /\ [][Next]_vars

\* the plus button, while no id above MaxEditId has been handed out
AddChildEdit ==
  \E p \in Ids(nodes) : DoAddChildWithin(p, MaxEditId)

\* the same with the edit modal
NextEdit ==
  \/ AddChildEdit
  \/ Delete
  \/ ClickNode
  \/ ToggleRelinkMode
  \/ CancelRelink
  \/ SaveNodeEdit

SpecEdit == Init /\ [][NextEdit]_vars

(***************************************************************************)
(* The editor from the state in which the next id is the one just below    *)
(* the anchor id: the root alone, after the nodes 2 .. ANCHOR_ID - 2 were  *)
(* each added under the root and deleted again.                            *)
(***************************************************************************)
InitAnchor ==
  /\ nodes = layoutTree(<<InitialNode>>)
  /\ edges = computeEdges(nodes)
  /\ isRelinkMode = FALSE
  /\ selectedNodeForRelink = NULL
  /\ nextId = ANCHOR_ID - 1
  /\ nodeParentsRef = ParentsOf(<<InitialNode>>)
  /\ layoutApplied = FALSE
  /\ lastCmd = [op |-> "delete", id |-> ANCHOR_ID - 2, held |-> NULL, n |-> 2]

\* the plus button of a node
AddChildAnchor ==
  \E p \in Ids(nodes) : DoAddChildWithin(p, MaxAnchorId)

NextAnchor ==
  \/ AddChildAnchor
  \/ Delete
  \/ ClickNode
  \/ ToggleRelinkMode
  \/ CancelRelink

SpecAnchor == InitAnchor /\ [][NextAnchor]_vars

(***************************************************************************)
(* The handlers called with a stale id: an id that add-child once handed   *)
(* out and that is no longer in the node list.  The node components never  *)
(* issue these calls (a button belongs to a node of the list); they are    *)
(* the commands of the core named with a reference that has become         *)
(* invalid.                                                                *)
(***************************************************************************)
StaleIds == (1..(nextId - 1)) \ Ids(nodes)

\* handleAddChild(parentId) with a stale parentId
StaleAddChild ==
  /\ nextId <= MaxStaleId
  /\ \E p \in StaleIds : DoAddChild(p)

\* handleDelete(nodeId) with a stale nodeId
StaleDelete ==
  \E n \in StaleIds : DoDelete(n)

\* handleRelink(nodeId, newParentId) with a stale nodeId or a stale newParentId
StaleRelink ==
  \E n \in 1..(nextId - 1) : \E p \in 1..(nextId - 1) :
    /\ n \in StaleIds \/ p \in StaleIds
    /\ n # p
    /\ DoRelink(n, p, Cmd("relink", p, n))

\* handleSaveNodeEdit(id, name, type) with a stale id
StaleSaveNodeEdit ==
  \E id \in StaleIds : \E name \in EditNames : \E type \in EditTypes :
    DoSaveNodeEdit(id, name, type)

\* the plus button, while fewer than MaxStaleId ids have been handed out
AddChildCmd ==
  /\ nextId <= MaxStaleId
  /\ AddChild

\* the events of the editor and the stale calls
NextCmd ==
  \/ AddChildCmd
  \/ Delete
  \/ ClickNode
  \/ ToggleRelinkMode
  \/ CancelRelink
  \/ StaleAddChild
  \/ StaleDelete
  \/ StaleRelink
  \/ StaleSaveNodeEdit

SpecCmd == Init /\ [][NextCmd]_vars

(***************************************************************************)
(* The measured-width variant of the editor (src/unnamed/part_000): the    *)
(* layout takes the width React Flow measured for a node, and falls back   *)
(* to the constant while the node has none.  node.measured is the measured *)
(* width, 0 while undefined (the source reads it with || so that 0 and     *)
(* undefined fall back alike).  Labels are left out: handleLabelChange     *)
(* touches neither parents, positions nor widths.  The widths are even, so *)
(* that every half the layout takes is a whole number.                     *)
(***************************************************************************)
MEASURED_NODE_WIDTH == 120

\* node.measured?.width || NODE_WIDTH
currentWidth(node) ==
  IF node.measured = 0 THEN MEASURED_NODE_WIDTH ELSE node.measured

\* a subtree width that ignores the node's own width
RECURSIVE getSubtreeWidthChildrenOnly(_, _)
getSubtreeWidthChildrenOnly(node, nds) ==
  LET children == ChildrenMap(nds, node.id)
      widths == [i \in 1..Len(children) |->
                   getSubtreeWidthChildrenOnly(children[i], nds)]
  IN  IF Len(children) = 0 THEN currentWidth(node)
      ELSE SumSeq(widths) + (Len(children) - 1) * HORIZONTAL_GAP

RECURSIVE getSubtreeWidthMeasured(_, _)
getSubtreeWidthMeasured(node, nds) ==
  LET children == ChildrenMap(nds, node.id)
      widths == [i \in 1..Len(children) |->
                   getSubtreeWidthMeasured(children[i], nds)]
      total == SumSeq(widths) + (Len(children) - 1) * HORIZONTAL_GAP
  IN  IF Len(children) = 0 THEN currentWidth(node)
      ELSE Max(currentWidth(node), total)

\* a root centre taken with the fallback width whatever was measured
RootCenterFallback(node) == node.x + MEASURED_NODE_WIDTH \div 2

\* the centre from which layoutTree lays a root out
RootCenterMeasured(node) == node.x + currentWidth(node) \div 2

\* the positions layoutNode assigns in the subtree of node, as <<id, x, y>>
RECURSIVE layoutNodeMeasured(_, _, _, _)
layoutNodeMeasured(nds, node, xCenter, y) ==
  LET children == ChildrenMap(nds, node.id)
      childrenWidths == [i \in 1..Len(children) |->
                           getSubtreeWidthMeasured(children[i], nds)]
      totalChildrenWidth ==
        SumSeq(childrenWidths) + (Len(children) - 1) * HORIZONTAL_GAP
      startX == xCenter - totalChildrenWidth \div 2
      childCenter(i) == SlotLeft(startX, childrenWidths, i) + childrenWidths[i] \div 2
  IN  {<<node.id, xCenter - currentWidth(node) \div 2, y>>}
        \cup UNION {layoutNodeMeasured(nds, children[i], childCenter(i), ChildY(y)) :
                      i \in 1..Len(children)}

layoutTreeMeasured(nds) ==
  LET roots == SelectSeq(nds, LAMBDA n : n.parentId = NULL)
      placed == UNION {layoutNodeMeasured(nds, roots[i], RootCenterMeasured(roots[i]),
                                          roots[i].y) : i \in 1..Len(roots)}
  IN  [i \in 1..Len(nds) |-> Place(placed, nds[i])]

\* computeEdges of the variant: every connector is animated
computeEdgesMeasured(nds) ==
  LET linked == SelectSeq(nds, LAMBDA n : n.parentId # NULL)
  IN  [i \in 1..Len(linked) |->
         [id |-> EdgeId(linked[i].parentId, linked[i].id),
          source |-> linked[i].parentId,
          target |-> linked[i].id,
          animated |-> TRUE]]

NewNodeMeasured(id, parentId) ==
  [id |-> id, parentId |-> parentId, x |-> 0, y |-> 0, measured |-> 0]

InitialNodeMeasured ==
  [id |-> ROOT_ID, parentId |-> NULL, x |-> ROOT_X, y |-> ROOT_Y, measured |-> 0]

\* useNodesInitialized: every node of the list has been measured
nodesInitialized(nds) == Len(nds) > 0 /\ \A n \in Range(nds) : n.measured # 0

\* the effect that lays the list out again once every node is measured and
\* layoutApplied is false; it runs after every render
RelayoutEffect(nds, applied) ==
  IF nodesInitialized(nds) /\ ~applied THEN layoutTreeMeasured(nds) ELSE nds

AppliedAfterEffect(nds, applied) == applied \/ nodesInitialized(nds)

InitMeasured ==
  /\ nodes = layoutTreeMeasured(<<InitialNodeMeasured>>)
  /\ edges = computeEdgesMeasured(nodes)
  /\ isRelinkMode = FALSE
  /\ selectedNodeForRelink = NULL
  /\ nextId = 2
  /\ nodeParentsRef = ParentsOf(<<InitialNodeMeasured>>)
  /\ layoutApplied = FALSE
  /\ lastCmd = [op |-> "init", id |-> NULL, held |-> NULL, n |-> 0]

\* the plus button of a node: handleAddChild, then the effect
AddChildMeasured ==
  \E p \in Ids(nodes) :
    LET laidOutNodes == layoutTreeMeasured(Append(nodes, NewNodeMeasured(nextId, p)))
    IN  /\ nextId <= MaxMeasuredId
        /\ nodes' = RelayoutEffect(laidOutNodes, FALSE)
        /\ layoutApplied' = AppliedAfterEffect(laidOutNodes, FALSE)
        /\ edges' = computeEdgesMeasured(laidOutNodes)
        /\ nextId' = nextId + 1
        /\ lastCmd' = Cmd("add", p, NULL)
        /\ UNCHANGED <<isRelinkMode, selectedNodeForRelink, nodeParentsRef>>

\* the trash button of a node: handleDelete, then the effect
DeleteMeasured ==
  \E n \in Ids(nodes) :
    LET laidOutNodes == layoutTreeMeasured(RemainingNodes(nodes, n))
    IN  /\ TrashShown(NodeById(nodes, n))
        /\ nodes' = RelayoutEffect(laidOutNodes, FALSE)
        /\ layoutApplied' = AppliedAfterEffect(laidOutNodes, FALSE)
        /\ edges' = computeEdgesMeasured(laidOutNodes)
        /\ lastCmd' = Cmd("delete", n, NULL)
        /\ UNCHANGED <<isRelinkMode, selectedNodeForRelink, nextId, nodeParentsRef>>

\* onNodesChange with the dimensions React Flow measured for a node, then
\* the effect
Measure ==
  \E n \in Ids(nodes) : \E w \in MeasuredWidths :
    LET measuredNodes ==
          [i \in 1..Len(nodes) |->
             IF nodes[i].id = n THEN [nodes[i] EXCEPT !.measured = w] ELSE nodes[i]]
    IN  /\ NodeById(nodes, n).measured # w
        /\ nodes' = RelayoutEffect(measuredNodes, layoutApplied)
        /\ layoutApplied' = AppliedAfterEffect(measuredNodes, layoutApplied)
        /\ lastCmd' = Cmd("measure", n, NULL)
        /\ UNCHANGED <<edges, isRelinkMode, selectedNodeForRelink, nextId,
                       nodeParentsRef>>

NextMeasured ==
  \/ AddChildMeasured
  \/ DeleteMeasured
  \/ Measure

SpecMeasured == InitMeasured /\ [][NextMeasured]_vars

\* the first measurement of a node: React Flow measures every node it has
\* rendered; later size reports and the user's clicks may never come
FirstMeasure ==
  /\ Measure
  /\ \E n \in Ids(nodes) : lastCmd'.id = n /\ NodeById(nodes, n).measured = 0

SpecMeasuredFair == SpecMeasured /\ WF_vars(FirstMeasure)

(***************************************************************************)
(* Vocabulary of the properties: the parent relation read upwards.         *)
(***************************************************************************)
\* the parentId of id in nds; NULL for the root and for an id not in nds
ParentIn(nds, id) == IF id \in Ids(nds) THEN NodeById(nds, id).parentId ELSE NULL

\* the nodes met on the way up from id, in at most fuel steps
RECURSIVE WayUp(_, _, _)
WayUp(nds, id, fuel) ==
  LET p == ParentIn(nds, id)
  IN  IF fuel = 0 \/ p = NULL THEN {} ELSE {p} \cup WayUp(nds, p, fuel - 1)

\* the proper ancestors of id (on a cycle the way up comes back to id itself)
AncestorsOf(nds, id) == WayUp(nds, id, Len(nds))

\* id and the nodes of nds that have id as a transitive ancestor
SubtreeOf(nds, id) == {id} \cup {m \in Ids(nds) : id \in AncestorsOf(nds, m)}

\* the structure of a node: what a layout pass and a relink-data sync leave alone
Structure(nds) ==
  [i \in 1..Len(nds) |-> [id |-> nds[i].id, parentId |-> nds[i].parentId,
                          label |-> nds[i].label, type |-> nds[i].type]]

\* the last event was a click that relinked the held node under the clicked one
RelinkDone ==
  /\ lastCmd.op = "click"
  /\ lastCmd.held # NULL
  /\ ~isRelinkMode
  /\ ParentIn(nodes, lastCmd.held) = lastCmd.id

(***************************************************************************)
(* C1: after every add-child, delete-subtree and relink, exactly one node  *)
(* has no parent, it is the root (id 1), and the parentId of every other   *)
(* node names a node of the node set.                                      *)
(***************************************************************************)
C1_SingleRootParentsExist ==
  /\ {n \in Range(nodes) : n.parentId = NULL} = {NodeById(nodes, ROOT_ID)}
  /\ ROOT_ID \in Ids(nodes)
  /\ \A n \in Range(nodes) : n.id # ROOT_ID => n.parentId \in Ids(nodes)

\* a relink has just acted on a tree from which a subtree was deleted before
C1_Witness ==
  /\ RelinkDone
  /\ Len(nodes) >= 3
  /\ Len(nodes) < nextId - 1

(***************************************************************************)
(* C2: after every operation the way up from any node reaches the root in  *)
(* finitely many steps: no cycle, and no node disconnected from the root.  *)
(***************************************************************************)
C2_ParentChainReachesRoot ==
  \A n \in Range(nodes) :
    LET up == AncestorsOf(nodes, n.id)
    IN  /\ n.id \notin up
        /\ up \subseteq Ids(nodes)
        /\ ROOT_ID \in up \cup {n.id}
        /\ Cardinality(up) < Len(nodes)

\* a relink has just moved a node with a child of its own to a new parent
C2_Witness ==
  /\ RelinkDone
  /\ \E m \in Range(nodes) : m.parentId = lastCmd.held
  /\ \E m \in Range(nodes) : Cardinality(AncestorsOf(nodes, m.id)) >= 3

(***************************************************************************)
(* C3: node ids are unique in every state, and add-child assigns them      *)
(* strictly increasing: every id in the node set is below the counter, the *)
(* counter never decreases, and a node that enters the node set has an id  *)
(* that was not below the counter before, so a freed id is never given to  *)
(* a later node.                                                           *)
(***************************************************************************)
C3_IdsUniqueAndIncreasing ==
  /\ [](/\ Cardinality(Ids(nodes)) = Len(nodes)
        /\ \A n \in Range(nodes) : n.id < nextId)
  /\ [][/\ nextId' >= nextId
        /\ \A id \in Ids(nodes') \ Ids(nodes) : id >= nextId /\ id < nextId']_vars

\* a node was added after an id below the counter had been freed
C3_Witness ==
  /\ lastCmd.op = "add"
  /\ Len(nodes) = lastCmd.n + 1
  /\ nodes[Len(nodes)].id = nextId - 1
  /\ \E id \in 2..(nextId - 2) : id \notin Ids(nodes)

(***************************************************************************)
(* C4: deleteSubtree(N) on a non-root node N removes exactly N and the     *)
(* nodes that have N as a transitive ancestor; every other node stays, in  *)
(* its place in the list, with its id, parentId, label and category.       *)
(***************************************************************************)
C4_DeleteRemovesExactlySubtree ==
  [][lastCmd'.op = "delete" =>
       LET N == lastCmd'.id
           kept == SelectSeq(nodes, LAMBDA n : n.id # N /\ N \notin AncestorsOf(nodes, n.id))
       IN  /\ N # ROOT_ID
           /\ Ids(nodes) \ Ids(nodes') = SubtreeOf(nodes, N)
           /\ Structure(nodes') = Structure(kept)]_vars

\* a delete has just removed a node together with descendants and left others
C4_Witness ==
  /\ lastCmd.op = "delete"
  /\ lastCmd.n - Len(nodes) >= 2
  /\ Len(nodes) >= 2

(***************************************************************************)
(* C5: while A is held for relink, a click on B, where B is A itself or a  *)
(* transitive descendant of A, is rejected: the node list (and with it     *)
(* every parentId), the connectors and the relink selection state stay as  *)
(* they are.                                                               *)
(***************************************************************************)
C5_RelinkToDescendantRejected ==
  [][(/\ lastCmd'.op = "click"
      /\ isRelinkMode
      /\ selectedNodeForRelink \in Ids(nodes)
      /\ lastCmd'.id \in SubtreeOf(nodes, selectedNodeForRelink))
     => UNCHANGED <<nodes, edges, isRelinkMode, selectedNodeForRelink>>]_vars

\* the last click was on a proper descendant of the held node, on a node
\* component that carries the current relink data
C5_Witness ==
  /\ lastCmd.op = "click"
  /\ isRelinkMode
  /\ selectedNodeForRelink \in Ids(nodes)
  /\ lastCmd.id \in Ids(nodes)
  /\ lastCmd.id # selectedNodeForRelink
  /\ selectedNodeForRelink \in AncestorsOf(nodes, lastCmd.id)
  /\ lastCmd.held = selectedNodeForRelink

(***************************************************************************)
(* C6: deleteSubtree is never applied to the root: no delete names the     *)
(* root, and in every reachable state the root is in the node set, at the  *)
(* head of the list and without a parent.                                  *)
(***************************************************************************)
C6_RootNeverDeleted ==
  /\ [](/\ Len(nodes) >= 1
        /\ nodes[1].id = ROOT_ID
        /\ nodes[1].parentId = NULL)
  /\ [][lastCmd'.op = "delete" => lastCmd'.id # ROOT_ID]_vars

\* deletes have emptied the tree down to the root, which is still there
C6_Witness ==
  /\ lastCmd.op = "delete"
  /\ lastCmd.n >= 3
  /\ Ids(nodes) = {ROOT_ID}

(***************************************************************************)
(* C7: while S is held for relink, a click on the current parent of S is a *)
(* no-op: the node list, the connectors and the relink selection state     *)
(* stay as they are, so S stays held.                                      *)
(***************************************************************************)
C7_RelinkToCurrentParentRejected ==
  [][(/\ lastCmd'.op = "click"
      /\ isRelinkMode
      /\ selectedNodeForRelink \in Ids(nodes)
      /\ lastCmd'.id = ParentIn(nodes, selectedNodeForRelink))
     => /\ UNCHANGED <<nodes, edges, isRelinkMode, selectedNodeForRelink>>
        /\ selectedNodeForRelink' \in Ids(nodes')]_vars

\* the last click was on the parent of the held node, on a node component that
\* carries the current relink data, and the parent is not the root
C7_Witness ==
  /\ lastCmd.op = "click"
  /\ isRelinkMode
  /\ selectedNodeForRelink \in Ids(nodes)
  /\ lastCmd.id = ParentIn(nodes, selectedNodeForRelink)
  /\ lastCmd.id # ROOT_ID
  /\ lastCmd.held = selectedNodeForRelink

(***************************************************************************)
(* C8: a command that names a node id that is not in the node set          *)
(* (addChild with a missing parent, deleteSubtree of a missing node,       *)
(* relink with a missing node or a missing new parent, rename of a missing *)
(* node) leaves the node set, all parent links and the connectors          *)
(* unchanged.                                                              *)
(***************************************************************************)
\* the event lastCmd' records named an id that was not in the node list
NamesMissingId ==
  \/ lastCmd'.op \in {"add", "delete", "edit"} /\ lastCmd'.id \notin Ids(nodes)
  \/ lastCmd'.op = "relink" /\ {lastCmd'.id, lastCmd'.held} \ Ids(nodes) # {}
  \/ lastCmd'.op = "click" /\ lastCmd'.held # NULL /\ lastCmd'.held \notin Ids(nodes)

TreeUnchanged ==
  /\ Ids(nodes') = Ids(nodes)
  /\ ParentsOf(nodes') = ParentsOf(nodes)
  /\ edges' = edges

C8_MissingIdCommandLeavesTreeUnchanged ==
  [][NamesMissingId => TreeUnchanged]_vars

(***************************************************************************)
(* Vocabulary of the layout properties: the horizontal extent of a         *)
(* subtree, from the x of its leftmost node to the x plus the width of its *)
(* rightmost node.                                                         *)
(***************************************************************************)
MinOf(S) == CHOOSE a \in S : \A b \in S : a <= b

MaxOf(S) == CHOOSE a \in S : \A b \in S : a >= b

ExtentLeft(nds, id) ==
  MinOf({n.x : n \in {m \in Range(nds) : m.id \in SubtreeOf(nds, id)}})

ExtentRight(nds, id) ==
  MaxOf({n.x + NODE_WIDTH : n \in {m \in Range(nds) : m.id \in SubtreeOf(nds, id)}})

\* the same with the width each node has in the measured-width variant
ExtentRightMeasured(nds, id) ==
  MaxOf({n.x + currentWidth(n) :
           n \in {m \in Range(nds) : m.id \in SubtreeOf(nds, id)}})

(***************************************************************************)
(* C9: after layout, the horizontal extents of any two sibling subtrees do *)
(* not intersect, and the extents of two adjacent sibling subtrees are     *)
(* exactly the horizontal gap (30) apart.                                  *)
(***************************************************************************)
C9_SiblingSubtreesApart ==
  \A p \in Ids(nodes) :
    LET kids == ChildrenMap(nodes, p)
    IN  /\ \A i \in 1..(Len(kids) - 1) :
             ExtentLeft(nodes, kids[i + 1].id) - ExtentRight(nodes, kids[i].id)
               = HORIZONTAL_GAP
        /\ \A i, j \in 1..Len(kids) :
             i # j => \/ ExtentRight(nodes, kids[i].id) < ExtentLeft(nodes, kids[j].id)
                      \/ ExtentRight(nodes, kids[j].id) < ExtentLeft(nodes, kids[i].id)

\* a laid-out tree in which a subtree with two children of its own has a sibling
C9_Witness ==
  \E p \in Ids(nodes) : \E c \in Ids(nodes) :
    /\ Len(ChildrenMap(nodes, p)) >= 2
    /\ ParentIn(nodes, c) = p
    /\ Len(ChildrenMap(nodes, c)) >= 2
    /\ lastCmd.op \in {"add", "delete", "click"}

(***************************************************************************)
(* C9 in the measured-width variant: whatever widths have been measured,   *)
(* layoutTree leaves the extents of any two sibling subtrees disjoint and  *)
(* those of adjacent sibling subtrees exactly the horizontal gap apart.    *)
(***************************************************************************)
C9_MeasuredSiblingSubtreesApart ==
  LET laid == layoutTreeMeasured(nodes)
  IN  \A p \in Ids(laid) :
        LET kids == ChildrenMap(laid, p)
        IN  /\ \A i \in 1..(Len(kids) - 1) :
                 ExtentLeft(laid, kids[i + 1].id) - ExtentRightMeasured(laid, kids[i].id)
                   = HORIZONTAL_GAP
            /\ \A i, j \in 1..Len(kids) :
                 i # j =>
                   \/ ExtentRightMeasured(laid, kids[i].id) < ExtentLeft(laid, kids[j].id)
                   \/ ExtentRightMeasured(laid, kids[j].id) < ExtentLeft(laid, kids[i].id)

\* two sibling subtrees, one of them a narrow node over a wide child, the
\* positions in the state being those of a layout with the present widths
C9_MeasuredWitness ==
  /\ nodes = layoutTreeMeasured(nodes)
  /\ \E a, b, c \in Range(nodes) :
       /\ a.id # b.id
       /\ a.parentId = b.parentId
       /\ c.parentId = a.id
       /\ currentWidth(c) > currentWidth(a)
       /\ currentWidth(b) # currentWidth(a)

(***************************************************************************)
(* C10: in the measured-width variant, a second layoutTree run on a        *)
(* laid-out tree, with no tree or width change in between, gives every     *)
(* node the position the first run gave it; and the list the relayout      *)
(* effect leaves behind is such a fixed point whenever it has just run.    *)
(***************************************************************************)
C10_MeasuredLayoutIdempotent ==
  /\ layoutTreeMeasured(layoutTreeMeasured(nodes)) = layoutTreeMeasured(nodes)
  /\ lastCmd.op \in {"add", "delete"} => layoutTreeMeasured(nodes) = nodes

\* a delete has laid out a tree of measured nodes of different widths, and
\* the effect has run layoutTree on the result once more
C10_MeasuredWitness ==
  /\ lastCmd.op = "delete"
  /\ layoutApplied
  /\ Len(nodes) >= 3
  /\ \E a, b \in Range(nodes) : a.measured # 0 /\ b.measured # 0 /\ a.measured # b.measured
  /\ \E p \in Ids(nodes) : Len(ChildrenMap(nodes, p)) >= 2

(***************************************************************************)
(* C10 in the v14 editor: the node list of every state is a fixed point of *)
(* layoutTree, and a second run repeats the first.                         *)
(***************************************************************************)
C10_LayoutIdempotent ==
  /\ layoutTree(nodes) = nodes
  /\ layoutTree(layoutTree(nodes)) = layoutTree(nodes)

\* a relink has just laid out a tree of four or more nodes, three levels deep
C10_Witness ==
  /\ RelinkDone
  /\ Len(nodes) >= 4
  /\ \E m \in Range(nodes) : Cardinality(AncestorsOf(nodes, m.id)) >= 2
  /\ \E p \in Ids(nodes) : Len(ChildrenMap(nodes, p)) >= 2

(***************************************************************************)
(* C11: whenever the anchor node (id 10) is in the tree, a connector is    *)
(* animated if and only if its target is the anchor or a transitive        *)
(* descendant of the anchor, and every such node has its connector.        *)
(***************************************************************************)
C11_AnchorSubtreeHighlighted ==
  ANCHOR_ID \in Ids(nodes) =>
    /\ \A e \in Range(edges) :
         e.animated <=> e.target \in SubtreeOf(nodes, ANCHOR_ID)
    /\ \A m \in SubtreeOf(nodes, ANCHOR_ID) :
         \E e \in Range(edges) : e.target = m /\ e.animated

\* a relink has just acted on a tree in which the anchor has a grandchild
\* and some other node hangs outside the anchor's subtree
C11_Witness ==
  /\ RelinkDone
  /\ ANCHOR_ID \in Ids(nodes)
  /\ \E m \in Ids(nodes) :
       ANCHOR_ID \in AncestorsOf(nodes, m) /\ ParentIn(nodes, m) # ANCHOR_ID
  /\ \E e \in Range(edges) : ~e.animated

(***************************************************************************)
(* C12: in every state the connector list holds exactly one connector per  *)
(* non-root node and nothing else: for a non-root node c with parent p the *)
(* connector with id "e-p-c", source p and target c; so there is one       *)
(* connector fewer than there are nodes, and the two lists are in step.    *)
(***************************************************************************)
C12_OneConnectorPerNonRootNode ==
  LET ConnectorOf(e, n) ==
        /\ e.id = <<"e", n.parentId, n.id>>
        /\ e.source = n.parentId
        /\ e.target = n.id
      nonRoot == {n \in Range(nodes) : n.id # ROOT_ID}
  IN  /\ Len(edges) = Len(nodes) - 1
      /\ \A n \in nonRoot : \E e \in Range(edges) : ConnectorOf(e, n)
      /\ \A e \in Range(edges) : \E n \in nonRoot : ConnectorOf(e, n)

\* a relink has just acted on a tree of four or more nodes from which a
\* subtree was deleted before
C12_Witness ==
  /\ RelinkDone
  /\ Len(nodes) >= 4
  /\ Len(nodes) < nextId - 1
  /\ \E e \in Range(edges) : e.source = lastCmd.id /\ e.target = lastCmd.held

(***************************************************************************)
(* Vocabulary of the selection protocol, read from the state of App.       *)
(***************************************************************************)
Idle == ~isRelinkMode /\ selectedNodeForRelink = NULL

AwaitingSource == isRelinkMode /\ selectedNodeForRelink = NULL

AwaitingTarget == isRelinkMode /\ selectedNodeForRelink # NULL

\* the step is a click on T while S, a non-root node of the tree, is held,
\* and T is a node of the tree other than S, its descendants and its parent
ValidTargetClicked(S, T) ==
  /\ AwaitingTarget
  /\ selectedNodeForRelink = S
  /\ S \in Ids(nodes) \ {ROOT_ID}
  /\ lastCmd'.op = "click"
  /\ lastCmd'.id = T
  /\ T \in Ids(nodes) \ SubtreeOf(nodes, S)
  /\ T # ParentIn(nodes, S)

\* the step has put S under T, moved no other node, and ended in Idle
RelinkedUnder(S, T) ==
  /\ Ids(nodes') = Ids(nodes)
  /\ ParentIn(nodes', S) = T
  /\ \A m \in Ids(nodes) \ {S} : ParentIn(nodes', m) = ParentIn(nodes, m)
  /\ ~isRelinkMode'
  /\ selectedNodeForRelink' = NULL

(***************************************************************************)
(* C13: while a non-root node S is held for relink, selecting any node T   *)
(* of the tree that is not S, not a descendant of S and not the current    *)
(* parent of S puts S under T, leaves every other parentId and the node    *)
(* set unchanged, and returns the selection protocol to Idle.              *)
(***************************************************************************)
C13_ValidTargetRelinks ==
  [][\A S, T \in Ids(nodes) : ValidTargetClicked(S, T) => RelinkedUnder(S, T)]_vars

(***************************************************************************)
(* C13 for the targets whose node data carries the present relink state    *)
(* (the nodes that were in the list when the selection last changed).      *)
(***************************************************************************)
C13_SyncedValidTargetRelinks ==
  [][\A S, T \in Ids(nodes) :
       /\ ValidTargetClicked(S, T)
       /\ NodeById(nodes, T).isRelinkMode
       /\ NodeById(nodes, T).selectedNodeForRelink = S
       => RelinkedUnder(S, T)]_vars

\* a relink has just moved the held node under a node two levels away
C13_SyncedWitness ==
  /\ RelinkDone
  /\ Len(nodes) >= 4
  /\ Cardinality(AncestorsOf(nodes, lastCmd.held)) >= 2

\* the position of every node
Geometry(nds) == [i \in 1..Len(nds) |-> [id |-> nds[i].id, x |-> nds[i].x, y |-> nds[i].y]]

\* the step leaves the node list (ids, parents, labels, types, order,
\* positions) and the connectors as they were
TreeKept ==
  /\ Structure(nodes') = Structure(nodes)
  /\ Geometry(nodes') = Geometry(nodes)
  /\ edges' = edges

(***************************************************************************)
(* C14 as stated: the cancel command returns the selection protocol to     *)
(* Idle and does not change the tree.                                      *)
(***************************************************************************)
C14_CancelReturnsToIdle ==
  [][lastCmd'.op = "cancel" => Idle' /\ TreeKept]_vars

(***************************************************************************)
(* C14 amended: the cancel command, offered while a node is held, drops    *)
(* the held node and leaves relink mode on (AwaitingTarget to              *)
(* AwaitingSource); it does not change the tree.                           *)
(***************************************************************************)
C14_CancelReturnsToAwaitingSource ==
  [][lastCmd'.op = "cancel" => AwaitingTarget /\ AwaitingSource' /\ TreeKept]_vars

\* a cancel has just dropped the held node of a tree of three or more nodes
C14_Witness ==
  /\ lastCmd.op = "cancel"
  /\ AwaitingSource
  /\ Len(nodes) >= 3
  /\ \A n \in Range(nodes) : n.isRelinkMode /\ n.selectedNodeForRelink = NULL

(***************************************************************************)
(* C15: the protocol is always in Idle, AwaitingSource or AwaitingTarget;  *)
(* toggling relink mode from Idle moves it to AwaitingSource with no node  *)
(* held, toggling from AwaitingSource or AwaitingTarget returns it to Idle *)
(* with no node held, and in both cases the tree is unchanged.             *)
(***************************************************************************)
C15_ToggleMovesBetweenIdleAndAwaitingSource ==
  /\ [](Idle \/ AwaitingSource \/ AwaitingTarget)
  /\ [][lastCmd'.op = "toggle" =>
          /\ Idle => AwaitingSource'
          /\ AwaitingSource \/ AwaitingTarget => Idle'
          /\ TreeKept]_vars

\* relink mode has just been toggled off while a node of a tree of three or
\* more nodes was held
C15_Witness ==
  /\ lastCmd.op = "toggle"
  /\ lastCmd.held \in Ids(nodes)
  /\ Idle
  /\ Len(nodes) >= 3
  /\ \A n \in Range(nodes) : ~n.isRelinkMode /\ n.selectedNodeForRelink = NULL

\* the step is a click on node T of the tree while relink mode is on and
\* no node is held
SourceClicked(T) ==
  /\ AwaitingSource
  /\ lastCmd'.op = "click"
  /\ lastCmd'.id = T

\* what the claim says of a click on T in AwaitingSource
SourceSelected(T) ==
  /\ T # ROOT_ID => AwaitingTarget' /\ selectedNodeForRelink' = T
  /\ T = ROOT_ID => AwaitingSource'
  /\ TreeKept

(***************************************************************************)
(* C16: in AwaitingSource, selecting a non-root node of the tree moves the *)
(* protocol to AwaitingTarget holding that node, selecting the root leaves *)
(* it in AwaitingSource with no node held; neither changes the tree.       *)
(***************************************************************************)
C16_SourceSelectionHoldsNode ==
  [][\A T \in Ids(nodes) : SourceClicked(T) => SourceSelected(T)]_vars

(***************************************************************************)
(* C16 for the nodes whose node data carries the present relink state.     *)
(***************************************************************************)
C16_SyncedSourceSelectionHoldsNode ==
  [][\A T \in Ids(nodes) :
       SourceClicked(T) /\ NodeById(nodes, T).isRelinkMode => SourceSelected(T)]_vars

\* a click has just made a node with a child of its own the held node
C16_SyncedWitness ==
  /\ lastCmd.op = "click"
  /\ lastCmd.held = NULL
  /\ AwaitingTarget
  /\ selectedNodeForRelink = lastCmd.id
  /\ Len(ChildrenMap(nodes, lastCmd.id)) >= 1

(***************************************************************************)
(* C17: a rename/retype of a node changes only the label and the category  *)
(* of that node: the node set, every parentId, every position, the         *)
(* connectors and the relink state are as before, and every other node is  *)
(* as before.                                                              *)
(***************************************************************************)
C17_EditChangesOnlyLabelAndType ==
  [][lastCmd'.op = "edit" =>
       /\ Len(nodes') = Len(nodes)
       /\ \A i \in 1..Len(nodes) :
            IF nodes[i].id = lastCmd'.id
            THEN /\ [nodes'[i] EXCEPT !.label = nodes[i].label,
                                       !.type = nodes[i].type] = nodes[i]
                 /\ nodes'[i].type \in EditTypes
            ELSE nodes'[i] = nodes[i]
       /\ edges' = edges
       /\ UNCHANGED <<isRelinkMode, selectedNodeForRelink, nextId>>]_vars

\* an edit has just retyped a node that has a parent, a child and a sibling,
\* all of which keep the type they had
C17_Witness ==
  /\ lastCmd.op = "edit"
  /\ lastCmd.id \in Ids(nodes) \ {ROOT_ID}
  /\ NodeById(nodes, lastCmd.id).type \in EditTypes
  /\ Len(ChildrenMap(nodes, lastCmd.id)) >= 1
  /\ Len(ChildrenMap(nodes, ParentIn(nodes, lastCmd.id))) >= 2
  /\ \A n \in Range(nodes) : n.id # lastCmd.id => n.type \notin EditTypes

(***************************************************************************)
(* C18: addChild(p) on a node p of the tree adds exactly one node, after   *)
(* all existing nodes: its id is the counter value, its parentId is p, its *)
(* label is "Component #<id>" and its category is Component; every        *)
(* existing node stays, in place, with its parentId, label and category.   *)
(***************************************************************************)
C18_AddChildAppendsOneNode ==
  [][lastCmd'.op = "add" /\ lastCmd'.id \in Ids(nodes) =>
       LET added == nodes'[Len(nodes')]
       IN  /\ Len(nodes') = Len(nodes) + 1
           /\ added.id = nextId
           /\ added.parentId = lastCmd'.id
           /\ added.label = <<"Component #", nextId>>
           /\ added.type = "Component"
           /\ \A i \in 1..Len(nodes) :
                /\ nodes'[i].id = nodes[i].id
                /\ nodes'[i].parentId = nodes[i].parentId
                /\ nodes'[i].label = nodes[i].label
                /\ nodes'[i].type = nodes[i].type]_vars

\* an add-child has just put a node under a non-root node, in a tree from
\* which a subtree was deleted before
C18_Witness ==
  /\ lastCmd.op = "add"
  /\ lastCmd.id # ROOT_ID
  /\ Len(nodes) >= 3
  /\ Len(nodes) < nextId - 1
  /\ nodes[Len(nodes)].id = nextId - 1
  /\ nodes[Len(nodes)].parentId = lastCmd.id

\* the x of the centre of a node of the v14 editor
CenterX(n) == n.x + NODE_WIDTH \div 2

(***************************************************************************)
(* C19: after layout the children of a node occupy consecutive slots from  *)
(* left to right: the slot of a child is as wide as its subtree (the       *)
(* width getSubtreeWidth computes, which is the extent its subtree         *)
(* covers), the child is centred in its slot, the next slot starts the     *)
(* horizontal gap after it, and the parent is centred over the span from   *)
(* the first slot to the last.  So an only child has the x centre of its   *)
(* parent, and two leaf children are symmetric about it.                   *)
(***************************************************************************)
C19_ChildrenCentredInConsecutiveSlots ==
  \A p \in Range(nodes) :
    LET kids == ChildrenMap(nodes, p.id)
        k == Len(kids)
        W(i) == getSubtreeWidth(kids[i], nodes)
        SlotStart(i) == CenterX(kids[i]) - W(i) \div 2
        SlotEnd(i) == SlotStart(i) + W(i)
    IN  k > 0 =>
          /\ \A i \in 1..k :
               /\ SlotStart(i) = ExtentLeft(nodes, kids[i].id)
               /\ SlotEnd(i) = ExtentRight(nodes, kids[i].id)
          /\ \A i \in 1..(k - 1) : SlotStart(i + 1) = SlotEnd(i) + HORIZONTAL_GAP
          /\ 2 * CenterX(p) = SlotStart(1) + SlotEnd(k)
          /\ k = 1 => CenterX(kids[1]) = CenterX(p)
          /\ k = 2 /\ W(1) = NODE_WIDTH /\ W(2) = NODE_WIDTH =>
               /\ CenterX(p) - CenterX(kids[1]) = CenterX(kids[2]) - CenterX(p)
               /\ CenterX(kids[2]) - CenterX(kids[1]) = NODE_WIDTH + HORIZONTAL_GAP

\* a delete or a relink has left a node with two children, the first with
\* two leaf children of its own and the second a leaf
C19_Witness ==
  /\ lastCmd.op = "delete" \/ RelinkDone
  /\ \E p \in Ids(nodes) :
       LET kids == ChildrenMap(nodes, p)
       IN  /\ Len(kids) = 2
           /\ Len(ChildrenMap(nodes, kids[1].id)) = 2
           /\ Len(ChildrenMap(nodes, kids[2].id)) = 0

(***************************************************************************)
(* C20: after layout every non-root node has the y of its parent plus the  *)
(* vertical gap (120), so a node at depth d has the y of the root plus d   *)
(* times the vertical gap, also when a relink has changed its depth.       *)
(***************************************************************************)
C20_RowsByDepth ==
  \A n \in Range(nodes) :
    /\ n.id # ROOT_ID => n.y = NodeById(nodes, n.parentId).y + VERTICAL_GAP
    /\ n.y = NodeById(nodes, ROOT_ID).y
               + Cardinality(AncestorsOf(nodes, n.id)) * VERTICAL_GAP

\* a relink has just moved a child of the root, with its own child, under
\* another child of the root: the two moved nodes are one level deeper
C20_Witness ==
  /\ RelinkDone
  /\ Len(nodes) = 4
  /\ ParentIn(nodes, lastCmd.id) = ROOT_ID
  /\ Len(ChildrenMap(nodes, lastCmd.held)) = 1
  /\ \E n \in Range(nodes) : n.y = ROOT_Y + 3 * VERTICAL_GAP

\* f[1] + ... + f[k]
RECURSIVE SumTo(_, _)
SumTo(f, k) == IF k = 0 THEN 0 ELSE SumTo(f, k - 1) + f[k]

\* the width the claim gives the subtree of a node of own width own whose
\* children have the subtree widths w[1] .. w[k]
ClaimedSubtreeWidth(own, w, k) ==
  IF k = 0 THEN own
  ELSE LET total == SumTo(w, k) + (k - 1) * HORIZONTAL_GAP
       IN  IF own >= total THEN own ELSE total

(***************************************************************************)
(* C21: in the measured-width variant getSubtreeWidth gives a childless    *)
(* node its own effective width (the measured width when known, else the   *)
(* default), and a node with k >= 1 children the larger of its own         *)
(* effective width and the sum of the subtree widths of its children plus  *)
(* k - 1 horizontal gaps.                                                  *)
(***************************************************************************)
C21_MeasuredSubtreeWidth ==
  \A n \in Range(nodes) :
    LET kids == ChildrenMap(nodes, n.id)
        w == [i \in 1..Len(kids) |-> getSubtreeWidthMeasured(kids[i], nodes)]
        own == IF n.measured # 0 THEN n.measured ELSE MEASURED_NODE_WIDTH
    IN  getSubtreeWidthMeasured(n, nodes) = ClaimedSubtreeWidth(own, w, Len(kids))

\* a measured node wider than the subtrees of its two children together,
\* over a child narrower than its own unmeasured child
C21_MeasuredWitness ==
  \E a, b, c \in Range(nodes) :
    /\ b.parentId = a.id
    /\ c.parentId = b.id
    /\ Len(ChildrenMap(nodes, a.id)) = 2
    /\ a.measured > getSubtreeWidthMeasured(b, nodes) + HORIZONTAL_GAP
    /\ b.measured # 0
    /\ c.measured = 0
    /\ b.measured < MEASURED_NODE_WIDTH

(***************************************************************************)
(* C21 in the v14 editor, where the effective width of every node is       *)
(* NODE_WIDTH.                                                             *)
(***************************************************************************)
C21_SubtreeWidth ==
  \A n \in Range(nodes) :
    LET kids == ChildrenMap(nodes, n.id)
        w == [i \in 1..Len(kids) |-> getSubtreeWidth(kids[i], nodes)]
    IN  getSubtreeWidth(n, nodes) = ClaimedSubtreeWidth(NODE_WIDTH, w, Len(kids))

\* the ids whose node object the last handler copied before the layout:
\* handleRelink maps the relinked node to a new object, handleAddChild and
\* handleDelete copy none
CopiedBeforeLayout ==
  IF lastCmd'.op = "click" THEN {lastCmd'.held} ELSE {}

\* the step ran a structural handler: add-child, delete or relink
StructuralStep ==
  \/ lastCmd'.op \in {"add", "delete"}
  \/ lastCmd'.op = "click" /\ AwaitingTarget /\ Idle'

(***************************************************************************)
(* C22: after add-child, delete-subtree or relink, the positions recorded  *)
(* in the node list that was published before the mutation are what they   *)
(* were before it.                                                         *)
(***************************************************************************)
C22_PreviousSnapshotKeepsPositions ==
  [][StructuralStep =>
       Geometry(layoutTreeWrites(nodes, nodes', CopiedBeforeLayout))
         = Geometry(nodes)]_vars

\* the published positions are not those of a layout with the present widths
StaleLayout == layoutTreeMeasured(nodes) # nodes

(***************************************************************************)
(* C23: in the measured-width variant, whenever the published positions    *)
(* come from a layout that used another width for some node than the one   *)
(* measured now (the width has become known, or has changed), a re-layout  *)
(* with the present widths eventually runs and the published positions     *)
(* agree with it.                                                          *)
(***************************************************************************)
C23_RelayoutFollowsMeasurement ==
  StaleLayout ~> ~StaleLayout

(***************************************************************************)
(* C23 for the widths that become known while a layout is pending: from    *)
(* any state in which layoutApplied is false, the effect eventually runs   *)
(* and the published positions agree with the present widths.              *)
(***************************************************************************)
C23_PendingRelayoutRuns ==
  ~layoutApplied ~> (layoutApplied /\ ~StaleLayout)

\* every node is measured, the layout was applied, and the positions are those
\* of other widths: a size report has arrived after the effect ran
C23_StaleAfterApplied ==
  /\ layoutApplied
  /\ nodesInitialized(nodes)
  /\ StaleLayout

(***************************************************************************)
(* C24: the root is at its initial coordinate (300, 50) in every reachable *)
(* state, whatever add-child, delete, relink and rename operations came    *)
(* before, and the span of its children's subtrees is centred on it.       *)
(***************************************************************************)
C24_RootStaysInPlace ==
  LET root == NodeById(nodes, ROOT_ID)
      kids == ChildrenMap(nodes, ROOT_ID)
  IN  /\ root.x = 300
      /\ root.y = 50
      /\ Len(kids) > 0 =>
            ExtentLeft(nodes, kids[1].id) + ExtentRight(nodes, kids[Len(kids)].id)
              = 2 * 300 + NODE_WIDTH

\* the root has been retyped, and a relink has just moved a grandchild of
\* the root under the other of the root's two children
C24_Witness ==
  /\ NodeById(nodes, ROOT_ID).type \in EditTypes
  /\ RelinkDone
  /\ Len(ChildrenMap(nodes, ROOT_ID)) = 2
  /\ Cardinality(AncestorsOf(nodes, lastCmd.held)) = 2

(***************************************************************************)
(* C25: in every reachable state the node list is in increasing id order,  *)
(* so the children of every node lie left to right in increasing id order; *)
(* a relinked node takes its place among its new siblings by its id.       *)
(***************************************************************************)
C25_ListAndSiblingsInIdOrder ==
  /\ \A i, j \in 1..Len(nodes) : i < j => nodes[i].id < nodes[j].id
  /\ \A a, b \in Range(nodes) :
       a.parentId = b.parentId /\ a.id < b.id => a.x < b.x

\* a relink has just put the held node under a parent that already had a
\* child with a greater id: the relinked node is not the last of the siblings
C25_Witness ==
  /\ RelinkDone
  /\ \E m \in Range(nodes) :
       /\ m.parentId = lastCmd.id
       /\ m.id > lastCmd.held
       /\ m.x > NodeById(nodes, lastCmd.held).x

(***************************************************************************)
(* C26: whenever the selection protocol is in AwaitingTarget, the held id  *)
(* names a node that is in the tree and is not the root.                   *)
(***************************************************************************)
C26_HeldNodeIsInTree ==
  AwaitingTarget => selectedNodeForRelink \in Ids(nodes) \ {ROOT_ID}

(***************************************************************************)
(* C26 for the selection step itself: a click that moves the protocol to   *)
(* AwaitingTarget holds a non-root node of the tree.                       *)
(***************************************************************************)
C26_SelectedNodeIsInTree ==
  [][AwaitingSource /\ AwaitingTarget' =>
       selectedNodeForRelink' \in Ids(nodes') \ {ROOT_ID}]_vars

(***************************************************************************)
(* C27: after every command the relink flags in the data of every node of  *)
(* the tree (isRelinkMode, selectedNodeForRelink) equal the relink state   *)
(* of App.                                                                 *)
(***************************************************************************)
C27_NodeFlagsEqualRelinkState ==
  \A n \in Range(nodes) :
    /\ n.isRelinkMode = isRelinkMode
    /\ n.selectedNodeForRelink = selectedNodeForRelink

(***************************************************************************)
(* C27 as far as it holds: the flags of a node are those of App, or those  *)
(* of the first render (relink mode off, no node held).                    *)
(***************************************************************************)
C27_NodeFlagsCurrentOrFirstRender ==
  \A n \in Range(nodes) :
    \/ n.isRelinkMode = isRelinkMode /\ n.selectedNodeForRelink = selectedNodeForRelink
    \/ ~n.isRelinkMode /\ n.selectedNodeForRelink = NULL

(***************************************************************************)
(* C28: a node is held for relink only while relink mode is on: whenever   *)
(* selectedNodeForRelink is not null, isRelinkMode is true.                *)
(***************************************************************************)
C28_HeldOnlyInRelinkMode ==
  selectedNodeForRelink # NULL => isRelinkMode

\* a node is held, and a node has been added since it was picked up
C28_Witness ==
  /\ selectedNodeForRelink \in Ids(nodes)
  /\ isRelinkMode
  /\ lastCmd.op = "add"
  /\ \E n \in Range(nodes) : ~n.isRelinkMode

(***************************************************************************)
(* C29: no connector is animated in a state in which the anchor node       *)
(* (id 10) is not in the tree, neither before add-child has created it nor *)
(* after it has been deleted.                                              *)
(***************************************************************************)
C29_NoHighlightWithoutAnchor ==
  ANCHOR_ID \notin Ids(nodes) => \A e \in Range(edges) : ~e.animated

\* the anchor has been created and deleted, together with whatever hung
\* under it, and two nodes created after it are still connected in the tree
C29_Witness ==
  /\ nextId > ANCHOR_ID + 2
  /\ ANCHOR_ID \notin Ids(nodes)
  /\ lastCmd.op = "delete"
  /\ Len(edges) >= 3
  /\ \E e \in Range(edges) : e.source > ANCHOR_ID

(***************************************************************************)
(* C30: in the fixed-width editor, addChild(p) immediately followed by the *)
(* delete of the node just created gives back the node list (the node set, *)
(* every position) and the connector list of before the addChild.          *)
(***************************************************************************)
C30_AddThenDeleteRestores ==
  [][lastCmd'.op = "add" =>
       /\ nextId \in Ids(nodes')
       /\ TrashShown(NodeById(nodes', nextId))
       /\ handleDelete(nodes', nextId) = nodes
       /\ computeEdges(handleDelete(nodes', nextId)) = edges]_vars

\* the node created last has just been deleted, as a leaf, from a tree that
\* keeps four or more nodes, two of them siblings
C30_Witness ==
  /\ lastCmd.op = "delete"
  /\ lastCmd.id = nextId - 1
  /\ lastCmd.n = Len(nodes) + 1
  /\ Len(nodes) >= 4
  /\ \E p \in Ids(nodes) : Len(ChildrenMap(nodes, p)) >= 2

=============================================================================
